---- MODULE Spec2Model ----
(***************************************************************************)
(* Response compression of rocket_contrib (contrib/lib/src/compression):   *)
(* the Encoding token registry, the exclusion matcher, the negotiation in  *)
(* CompressionUtils::compress_response, the lazily compressed body it      *)
(* installs, and the Compression fairing's on_response hook.               *)
(*                                                                         *)
(* Text (header values, encoding tokens, media type components) is a      *)
(* sequence of Unicode code points, so that split(','), trim() and case    *)
(* are computed rather than assumed.  Option<T> is <<>> (None) or <<v>>    *)
(* (Some(v)).                                                              *)
(***************************************************************************)
EXTENDS Integers, Sequences, FiniteSets, TLC

VARIABLES
    response,        \* the Response being built / sent
    config_exclude,  \* Rocket.toml compress.exclude: <<>> or <<list>>
    call,            \* the last hook invocation: its arguments and pre-state
    phase,           \* "building" | "sending" | "dropped"
    consumed,        \* the items the downstream consumer got from the body
    eof,             \* the consumer has seen the end of the body
    skip_call,       \* the last skip_encoding evaluation (SpecSkip)
    enc_call         \* the last Encoding parse/format evaluation (SpecEnc)

vars == <<response, config_exclude, call, phase, consumed, eof, skip_call, enc_call>>

---------------------------------------------------------------------------
(* Bounds *)

\* longest original body, in bytes
MaxBodyLen == 1
\* longest exclusion list given to skip_encoding in SpecSkip
MaxExcl == 2
\* longest generated token given to Encoding::from_str in SpecEnc
MaxTokLen == 2

---------------------------------------------------------------------------
(* Text literals *)

\* the printable ASCII characters, U+0020 to U+007E in order (U+0060, which
\* a string of this language cannot hold, is left empty)
Printable ==
    << " ", "!", "\"", "#", "$", "%", "&", "'", "(", ")", "*", "+", ",", "-", ".", "/",
       "0", "1", "2", "3", "4", "5", "6", "7", "8", "9", ":", ";", "<", "=", ">", "?",
       "@", "A", "B", "C", "D", "E", "F", "G", "H", "I", "J", "K", "L", "M", "N", "O",
       "P", "Q", "R", "S", "T", "U", "V", "W", "X", "Y", "Z", "[", "\\", "]", "^", "_",
       "",  "a", "b", "c", "d", "e", "f", "g", "h", "i", "j", "k", "l", "m", "n", "o",
       "p", "q", "r", "s", "t", "u", "v", "w", "x", "y", "z", "{", "|", "}", "~" >>

\* the code point of a printable ASCII character
CodeOf(c) == 31 + (CHOOSE i \in 1..Len(Printable) : Printable[i] = c)

\* a string literal as the sequence of its code points
Text(s) == [i \in 1..Len(s) |-> CodeOf(s[i])]

s_chunked == Text(<<"c","h","u","n","k","e","d">>)
s_br == Text(<<"b","r">>)
s_gzip == Text(<<"g","z","i","p">>)
s_deflate == Text(<<"d","e","f","l","a","t","e">>)
s_compress == Text(<<"c","o","m","p","r","e","s","s">>)
s_identity == Text(<<"i","d","e","n","t","i","t","y">>)
s_trailers == Text(<<"t","r","a","i","l","e","r","s">>)
s_gzip_br == Text(<<"g","z","i","p",","," ","b","r">>)
s_GZIP == Text(<<"G","Z","I","P">>)
s_Gzip == Text(<<"G","z","i","p">>)
s_star == Text(<<"*">>)
s_text == Text(<<"t","e","x","t">>)
s_html == Text(<<"h","t","m","l">>)
s_image == Text(<<"i","m","a","g","e">>)
s_IMAGE == Text(<<"I","M","A","G","E">>)
s_png == Text(<<"p","n","g">>)
s_PNG == Text(<<"P","N","G">>)
s_video == Text(<<"v","i","d","e","o">>)
s_mp4 == Text(<<"m","p","4">>)
s_application == Text(<<"a","p","p","l","i","c","a","t","i","o","n">>)
s_zip == Text(<<"z","i","p">>)
s_wasm == Text(<<"w","a","s","m">>)
s_octet_stream == Text(<<"o","c","t","e","t","-","s","t","r","e","a","m">>)
s_x_custom == Text(<<"x","-","c","u","s","t","o","m">>)

\* u8::to_ascii_lowercase on one character
AsciiLowerChar(c) == IF c \in 65..90 THEN c + 32 ELSE c

AsciiLower(s) == [i \in 1..Len(s) |-> AsciiLowerChar(s[i])]

\* UncasedStr's PartialEq: ASCII-case-insensitive equality, the `==` of
\* MediaType::top()/sub() and of MediaType itself
UncasedEq(a, b) == AsciiLower(a) = AsciiLower(b)

\* All sequences over S of length at most n
SeqsUpTo(S, n) == UNION {[1..k -> S] : k \in 0..n}

---------------------------------------------------------------------------
(* Encoding: enum, Display, FromStr  (mod.rs 45-94) *)

FixedTags == {"Chunked", "Brotli", "Gzip", "Deflate", "Compress", "Identity", "Trailers"}

\* a unit variant
Variant(tag) == [tag |-> tag, s |-> <<>>]
\* Encoding::EncodingExt(String)
EncodingExt(s) == [tag |-> "EncodingExt", s |-> s]

\* impl Display for Encoding
fmt(e) ==
    CASE e.tag = "Chunked" -> s_chunked
      [] e.tag = "Brotli" -> s_br
      [] e.tag = "Gzip" -> s_gzip
      [] e.tag = "Deflate" -> s_deflate
      [] e.tag = "Compress" -> s_compress
      [] e.tag = "Identity" -> s_identity
      [] e.tag = "Trailers" -> s_trailers
      [] OTHER -> e.s

\* FromStr matching the token case-insensitively
from_str_uncased(s) ==
    CASE AsciiLower(s) = s_chunked -> Variant("Chunked")
      [] AsciiLower(s) = s_br -> Variant("Brotli")
      [] AsciiLower(s) = s_deflate -> Variant("Deflate")
      [] AsciiLower(s) = s_gzip -> Variant("Gzip")
      [] AsciiLower(s) = s_compress -> Variant("Compress")
      [] AsciiLower(s) = s_identity -> Variant("Identity")
      [] AsciiLower(s) = s_trailers -> Variant("Trailers")
      [] OTHER -> EncodingExt(s)

\* impl FromStr for Encoding (Err = Infallible: the result is always Ok)
from_str(s) ==
    CASE s = s_chunked -> Variant("Chunked")
      [] s = s_br -> Variant("Brotli")
      [] s = s_deflate -> Variant("Deflate")
      [] s = s_gzip -> Variant("Gzip")
      [] s = s_compress -> Variant("Compress")
      [] s = s_identity -> Variant("Identity")
      [] s = s_trailers -> Variant("Trailers")
      [] OTHER -> EncodingExt(s)

---------------------------------------------------------------------------
(* Accept-Encoding negotiation  (mod.rs 99-106) *)

\* char::is_whitespace: the code points with the Unicode White_Space property
\* (U+0009..U+000D, U+0020, U+0085, U+00A0, U+1680, U+2000..U+200A, U+2028,
\* U+2029, U+202F, U+205F, U+3000)
IsWhitespace(c) ==
    \/ c \in 9..13
    \/ c \in {32, 133, 160, 5760}
    \/ c \in 8192..8202
    \/ c \in {8232, 8233, 8239, 8287, 12288}

RECURSIVE TrimStart(_)
\* str::trim_start
TrimStart(s) ==
    IF s # <<>> /\ IsWhitespace(Head(s)) THEN TrimStart(Tail(s)) ELSE s

RECURSIVE TrimEnd(_)
\* str::trim_end
TrimEnd(s) ==
    IF s # <<>> /\ IsWhitespace(s[Len(s)])
    THEN TrimEnd(SubSeq(s, 1, Len(s) - 1))
    ELSE s

\* str::trim
Trim(s) == TrimEnd(TrimStart(s))

RECURSIVE SplitFrom(_, _, _)
\* str::split(sep): the pieces of s, cur being the piece under way
SplitFrom(s, sep, cur) ==
    IF s = <<>> THEN <<cur>>
    ELSE IF Head(s) = sep THEN <<cur>> \o SplitFrom(Tail(s), sep, <<>>)
    ELSE SplitFrom(Tail(s), sep, Append(cur, Head(s)))

\* accept.split(',')
Split(s, sep) == SplitFrom(s, sep, <<>>)

RECURSIVE FlatMapSplit(_)
\* .flat_map(|accept| accept.split(','))
FlatMapSplit(values) ==
    IF values = <<>> THEN <<>>
    ELSE Split(Head(values), CodeOf(",")) \o FlatMapSplit(Tail(values))

\* accepts_encoding without the .map(|accept| accept.trim()) step
accepts_encoding_untrimmed(request, encoding) ==
    LET toks == FlatMapSplit(request.accept_encoding)
    IN \E i \in 1..Len(toks) : toks[i] = encoding

\* CompressionUtils::accepts_encoding
accepts_encoding(request, encoding) ==
    LET toks == FlatMapSplit(request.accept_encoding)
    IN \E i \in 1..Len(toks) : Trim(toks[i]) = encoding

---------------------------------------------------------------------------
(* Exclusion matching  (mod.rs 124-138) *)

MediaType(top, sub) == [top |-> top, sub |-> sub]

\* MediaType's PartialEq: top and sub compared as UncasedStr
MediaTypeEq(a, b) == UncasedEq(a.top, b.top) /\ UncasedEq(a.sub, b.sub)

\* the closure given to exclusions.iter().any(..)
ExclusionMatches(exc_media_type, content_type) ==
    IF UncasedEq(exc_media_type.sub, s_star)
    THEN UncasedEq(exc_media_type.top, content_type.top)
    ELSE MediaTypeEq(exc_media_type, content_type)

RECURSIVE IterAny(_, _)
\* exclusions.iter().any(..): left to right, stopping at the first match
IterAny(exclusions, content_type) ==
    IF exclusions = <<>> THEN FALSE
    ELSE IF ExclusionMatches(Head(exclusions), content_type) THEN TRUE
    ELSE IterAny(Tail(exclusions), content_type)

\* skip_encoding comparing whole media types only (no "*" branch)
skip_encoding_exact(content_type, exclusions) ==
    IF content_type = <<>> THEN FALSE
    ELSE \E i \in 1..Len(exclusions) : MediaTypeEq(exclusions[i], content_type[1])

\* skip_encoding looking at the first exclusion only
skip_encoding_first(content_type, exclusions) ==
    IF content_type = <<>> \/ exclusions = <<>> THEN FALSE
    ELSE ExclusionMatches(exclusions[1], content_type[1])

\* CompressionUtils::skip_encoding
skip_encoding(content_type, exclusions) ==
    IF content_type = <<>> THEN FALSE
    ELSE IterAny(exclusions, content_type[1])

\* fairing.rs: lazy_static EXCLUSIONS
EXCLUSIONS ==
    << MediaType(s_application, s_gzip),
       MediaType(s_application, s_zip),
       MediaType(s_image, s_star),
       MediaType(s_video, s_star),
       MediaType(s_application, s_wasm),
       MediaType(s_application, s_octet_stream) >>

---------------------------------------------------------------------------
(* Bodies, the gzip encoder and the response  (mod.rs 108-122, 186-207) *)

\* the byte values original bodies are made of
ByteVals == {31, 104}

\* the low n bits of v, least significant first
LsbBits(v, n) == [i \in 1..n |-> (v \div (2 ^ (i - 1))) % 2]

\* the low n bits of v, most significant first (Huffman codes go out this way)
MsbBits(v, n) == [i \in 1..n |-> (v \div (2 ^ (n - i))) % 2]

\* the byte whose bits, least significant first, are `bits`
BitsToByte(bits) ==
    bits[1] + 2 * bits[2] + 4 * bits[3] + 8 * bits[4]
      + 16 * bits[5] + 32 * bits[6] + 64 * bits[7] + 128 * bits[8]

RECURSIVE PackBits(_)
\* a bit stream as bytes, filled from the least significant bit, the last
\* byte padded with zeros
PackBits(bits) ==
    IF bits = <<>> THEN <<>>
    ELSE IF Len(bits) < 8
         THEN <<BitsToByte(bits \o [i \in 1..(8 - Len(bits)) |-> 0])>>
         ELSE <<BitsToByte(SubSeq(bits, 1, 8))>> \o PackBits(SubSeq(bits, 9, Len(bits)))

\* the reflected CRC-32 polynomial EDB88320, least significant bit first
CrcPoly ==
    << 0, 0, 0, 0, 0, 1, 0, 0,
       1, 1, 0, 0, 0, 0, 0, 1,
       0, 0, 0, 1, 1, 1, 0, 1,
       1, 0, 1, 1, 0, 1, 1, 1 >>

XorBits(x, y) == [i \in 1..Len(x) |-> (x[i] + y[i]) % 2]

RECURSIVE CrcRounds(_, _)
\* n shift steps of the bitwise CRC
CrcRounds(crc, n) ==
    IF n = 0 THEN crc
    ELSE LET shifted == Tail(crc) \o <<0>>
         IN CrcRounds(IF crc[1] = 1 THEN XorBits(shifted, CrcPoly) ELSE shifted, n - 1)

RECURSIVE CrcUpdate(_, _)
\* the CRC register after the bytes of b
CrcUpdate(crc, b) ==
    IF b = <<>> THEN crc
    ELSE CrcUpdate(CrcRounds(XorBits(crc, LsbBits(Head(b), 8) \o [i \in 1..24 |-> 0]), 8),
                   Tail(b))

\* CRC-32 of b as the four little-endian bytes of the gzip trailer
Crc32(b) ==
    LET reg == CrcUpdate([i \in 1..32 |-> 1], b)
    IN PackBits([i \in 1..32 |-> 1 - reg[i]])

\* ISIZE: the length of b modulo 2^32, four little-endian bytes
Isize(b) ==
    << Len(b) % 256, (Len(b) \div 256) % 256,
       (Len(b) \div 65536) % 256, (Len(b) \div 16777216) % 256 >>

\* the fixed Huffman code of a literal byte (RFC 1951, 3.2.6)
FixedLiteralCode(lit) ==
    IF lit < 144 THEN MsbBits(48 + lit, 8) ELSE MsbBits(400 + (lit - 144), 9)

RECURSIVE LiteralCodes(_)
LiteralCodes(b) ==
    IF b = <<>> THEN <<>> ELSE FixedLiteralCode(Head(b)) \o LiteralCodes(Tail(b))

\* the DEFLATE stream the encoder writes for a short body: one final block
\* with the fixed Huffman codes (BFINAL = 1, BTYPE = 01), the bytes as
\* literals, and the end-of-block code.  This is what flate2 emits for the
\* bodies of this model, which are too short to hold a repeated run.
DeflateFixed(b) ==
    PackBits(<<1, 1, 0>> \o LiteralCodes(b) \o <<0, 0, 0, 0, 0, 0, 0>>)

\* the ten-byte member header GzEncoder writes: magic 1f 8b, method 8
\* (deflate), no flags, no mtime, no extra flags, OS 255 (unknown)
GzHeader == <<31, 139, 8, 0, 0, 0, 0, 0, 0, 255>>

\* GzEncoder::new(body, Compression::default()).read_to_end(&mut buf):
\* header, DEFLATE stream, CRC-32 and ISIZE of the uncompressed bytes
GzEncode(b) == GzHeader \o DeflateFixed(b) \o Crc32(b) \o Isize(b)

\* a body as the handler made it: its bytes, whether reading it succeeds,
\* how many reads of it have been started, and how far reading has got
\* ("unread", "reading": polled but not yet at its end, "drained")
PlainBody(bytes, io_ok) ==
    [kind |-> "plain", bytes |-> bytes, io_ok |-> io_ok, reads |-> 0, state |-> "unread"]

\* the lazily compressed body, reading the original while it is built
GzipBodyEager(plain) ==
    [kind |-> "gzip_stream",
     plain |-> [plain EXCEPT !.reads = @ + 1, !.state = "drained"],
     outcome |-> "pending"]

\* the body built at mod.rs 187-205: an async block owning `plain`, turned
\* into a stream and wrapped by stream_reader; nothing runs until it is
\* polled.  outcome: "pending" (never polled), "reading" (suspended at the
\* .await of into_bytes), "ok" / "encoder_error" (finished, item yielded)
GzipBody(plain) ==
    [kind |-> "gzip_stream", plain |-> plain, outcome |-> "pending"]

\* stream items: Ok(Cursor(buf)) and Err(err)
OkItem(bytes) == [ok |-> TRUE, bytes |-> bytes]
ErrItem == [ok |-> FALSE, bytes |-> <<>>]

\* Option::unwrap_or_else(Vec::new)
UnwrapOrEmpty(opt) == IF opt = <<>> THEN <<>> ELSE opt[1]

RECURSIVE IntoBytes(_, _, _, _)
RECURSIVE RunFuture(_, _, _)

\* one poll of plain.into_bytes(): `first` when the poll creates the future,
\* `ready` when the source gets to its end (or its error) within this poll.
\* Not ready: Poll::Pending, the source left part-read.  Ready: Some(all
\* bytes), or None when reading failed.
IntoBytes(b, first, ready, encoder_ok) ==
    IF b.kind = "plain"
    THEN LET started == [b EXCEPT !.reads = IF first THEN @ + 1 ELSE @]
         IN IF ~ready
            THEN [done |-> FALSE, out |-> <<>>,
                  body |-> [started EXCEPT !.state = IF @ = "unread" THEN "reading" ELSE @]]
            ELSE [done |-> TRUE,
                  out |-> IF ~b.io_ok THEN <<>>
                          ELSE IF b.state = "drained" THEN << <<>> >>
                          ELSE <<b.bytes>>,
                  body |-> [started EXCEPT !.state = "drained"]]
    ELSE IF b.outcome \in {"ok", "encoder_error"}
         THEN [done |-> TRUE, out |-> << <<>> >>, body |-> b]
         ELSE LET r == RunFuture(b, ready, encoder_ok)
              IN [done |-> r.done,
                  out |-> IF r.done /\ r.item.ok THEN <<r.item.bytes>> ELSE <<>>,
                  body |-> r.body]

\* one poll of the async block of mod.rs 187-201: it stays at the .await of
\* line 188 while into_bytes is pending, and otherwise runs to its end,
\* giving the one item of the stream
RunFuture(w, ready, encoder_ok) ==
    LET r == IntoBytes(w.plain, w.outcome = "pending", ready, encoder_ok)
        body == UnwrapOrEmpty(r.out)
    IN IF ~r.done
       THEN [done |-> FALSE, item |-> ErrItem,
             body |-> [w EXCEPT !.plain = r.body, !.outcome = "reading"]]
       ELSE IF encoder_ok
       THEN [done |-> TRUE, item |-> OkItem(GzEncode(body)),
             body |-> [w EXCEPT !.plain = r.body, !.outcome = "ok"]]
       ELSE [done |-> TRUE, item |-> ErrItem,
             body |-> [w EXCEPT !.plain = r.body, !.outcome = "encoder_error"]]

\* one poll of a response body by the downstream consumer: the items it
\* gets (none on Poll::Pending), the body afterwards, and whether the poll
\* found the end of the body
PollResult(b, ready, encoder_ok) ==
    IF b.kind = "plain"
    THEN IF b.state = "drained"
         THEN [items |-> <<>>, body |-> b, eof |-> TRUE]
         ELSE IF ~ready
         THEN [items |-> <<>>,
               body |-> [b EXCEPT !.reads = 1, !.state = "reading"], eof |-> FALSE]
         ELSE [items |-> <<IF b.io_ok THEN OkItem(b.bytes) ELSE ErrItem>>,
               body |-> [b EXCEPT !.reads = 1, !.state = "drained"], eof |-> FALSE]
    ELSE IF b.outcome \in {"pending", "reading"}
         THEN LET r == RunFuture(b, ready, encoder_ok)
              IN [items |-> IF r.done THEN <<r.item>> ELSE <<>>,
                  body |-> r.body, eof |-> FALSE]
         ELSE [items |-> <<>>, body |-> b, eof |-> TRUE]

\* already_encoded reading the header's value instead of its presence
already_encoded_unless_identity(resp) ==
    \E i \in 1..Len(resp.content_encoding) : resp.content_encoding[i] # s_identity

\* already_encoded that never finds the header
already_encoded_never(resp) == FALSE

\* CompressionUtils::already_encoded
already_encoded(resp) == resp.content_encoding # <<>>

\* set_body_and_encoding without the set_header call
set_body_only(resp, body, encoding) ==
    [resp EXCEPT !.body = <<body>>]

\* CompressionUtils::set_body_and_encoding
set_body_and_encoding(resp, body, encoding) ==
    [resp EXCEPT !.content_encoding = <<fmt(encoding)>>, !.body = <<body>>]

\* cfg!(feature = "gzip_compression")
GzipFeature == TRUE

\* CompressionUtils::compress_response: the response it leaves behind
compress_response(request, resp, exclusions) ==
    IF already_encoded(resp) THEN resp
    ELSE IF skip_encoding(resp.content_type, exclusions) THEN resp
    ELSE IF GzipFeature /\ accepts_encoding(request, s_gzip)
         THEN IF resp.body # <<>>
              THEN set_body_and_encoding([resp EXCEPT !.body = <<>>],
                                         GzipBody(resp.body[1]),
                                         Variant("Gzip"))
              ELSE resp
         ELSE resp

---------------------------------------------------------------------------
(* Inputs *)

\* Content-Type values of the responses (None: no Content-Type header)
ContentTypes ==
    { <<>>,
      <<MediaType(s_text, s_html)>>,
      <<MediaType(s_image, s_png)>>,
      <<MediaType(s_IMAGE, s_PNG)>>,
      <<MediaType(s_application, s_zip)>>,
      <<MediaType(s_application, s_x_custom)>> }

\* Content-Encoding header values a handler may have set already
ContentEncodings == { <<>>, <<s_identity>>, <<s_gzip>> }

Bodies ==
    {<<>>} \cup { <<PlainBody(b, ok)>> : b \in SeqsUpTo(ByteVals, MaxBodyLen), ok \in BOOLEAN }

Responses ==
    [content_type : ContentTypes, content_encoding : ContentEncodings, body : Bodies]

\* Accept-Encoding header values
AcceptValues ==
    { s_gzip,
      s_gzip_br,
      s_br,
      s_GZIP,
      \* "br ,<TAB>gzip<FORM FEED>"
      Text(<<"b","r"," ",",">>) \o <<9>> \o s_gzip \o <<12>>,
      \* "<NO-BREAK SPACE>gzip<IDEOGRAPHIC SPACE>"
      <<160>> \o s_gzip \o <<12288>>,
      \* "<ZERO WIDTH SPACE>gzip": U+200B is not White_Space
      <<8203>> \o s_gzip,
      Text(<<"x","g","z","i","p">>) }

\* requests: no Accept-Encoding header, one, or two of them
Requests ==
    { [accept_encoding |-> v] :
        v \in {<<>>} \cup { <<a>> : a \in AcceptValues }
              \cup { <<s_br, s_gzip>> } }

CustomExclusions == << MediaType(s_application, s_x_custom) >>

\* exclusion lists handed to compress_response directly
ExclusionLists == { <<>>, EXCLUSIONS, CustomExclusions }

\* compress.exclude of the configuration: unset, or a custom list
Configs == { <<>>, <<CustomExclusions>> }

NoCall == [op |-> "none", request |-> [accept_encoding |-> <<>>], exclusions |-> <<>>]
NoSkipCall == [called |-> FALSE, content_type |-> <<>>, exclusions |-> <<>>, result |-> FALSE]
NoEncCall == [op |-> "none", s |-> <<>>, e |-> Variant("Identity"), t |-> <<>>, e2 |-> Variant("Identity")]

---------------------------------------------------------------------------
(* The response pipeline *)

Init ==
    /\ response \in Responses
    /\ config_exclude \in Configs
    /\ call = NoCall @@ [pre |-> response]
    /\ phase = "building"
    /\ consumed = <<>>
    /\ eof = FALSE
    /\ skip_call = NoSkipCall
    /\ enc_call = NoEncCall

\* a direct call of CompressionUtils::compress_response (as the Compress
\* responder makes) with the exclusion list the caller passes
CompressResponse ==
    /\ phase = "building"
    /\ \E request \in Requests, exclusions \in ExclusionLists :
         /\ response' = compress_response(request, response, exclusions)
         /\ call' = [op |-> "compress_response", request |-> request,
                     exclusions |-> exclusions, pre |-> response]
    /\ UNCHANGED <<config_exclude, phase, consumed, eof, skip_call, enc_call>>

\* Fairing::on_response of Compression (fairing.rs 97-99)
on_response ==
    /\ phase = "building"
    /\ \E request \in Requests :
         /\ response' = compress_response(request, response, EXCLUSIONS)
         /\ call' = [op |-> "on_response", request |-> request,
                     exclusions |-> EXCLUSIONS, pre |-> response]
    /\ UNCHANGED <<config_exclude, phase, consumed, eof, skip_call, enc_call>>

\* the server starts writing the response out
Send ==
    /\ phase = "building"
    /\ phase' = "sending"
    /\ UNCHANGED <<response, config_exclude, call, consumed, eof, skip_call, enc_call>>

\* the downstream consumer polls the response's body once; whether the
\* original body is ready and whether the encoder succeeds is the
\* environment's choice
PollBody ==
    /\ phase = "sending"
    /\ ~eof
    /\ response.body # <<>>
    /\ \E ready \in BOOLEAN, encoder_ok \in BOOLEAN :
         LET r == PollResult(response.body[1], ready, encoder_ok)
         IN /\ response' = [response EXCEPT !.body = <<r.body>>]
            /\ consumed' = consumed \o r.items
            /\ eof' = r.eof
    /\ UNCHANGED <<config_exclude, call, phase, skip_call, enc_call>>

\* the consumer goes away (client disconnect): the body is dropped
DropBody ==
    /\ phase = "sending"
    /\ phase' = "dropped"
    /\ UNCHANGED <<response, config_exclude, call, consumed, eof, skip_call, enc_call>>

Next == CompressResponse \/ on_response \/ Send \/ PollBody \/ DropBody

Spec == Init /\ [][Next]_vars

---------------------------------------------------------------------------
(* skip_encoding on its own: every content type against every short list *)

\* media types an exclusion list is made of
ExclusionEntries ==
    { EXCLUSIONS[i] : i \in 1..Len(EXCLUSIONS) }
      \cup { MediaType(s_application, s_x_custom),
             MediaType(s_image, s_png),
             MediaType(s_text, s_star) }

SkipContentTypes == ContentTypes \cup { <<MediaType(s_video, s_mp4)>>, <<MediaType(s_text, s_png)>> }

IdleResponse == [content_type |-> <<>>, content_encoding |-> <<>>, body |-> <<>>]

\* the pipeline at rest, for the specifications of the pure functions
PipelineIdle ==
    /\ response = IdleResponse
    /\ config_exclude = <<>>
    /\ call = NoCall @@ [pre |-> IdleResponse]
    /\ phase = "building"
    /\ consumed = <<>>
    /\ eof = FALSE

\* the arguments of the evaluation are drawn here
InitSkip ==
    /\ PipelineIdle
    /\ enc_call = NoEncCall
    /\ \E content_type \in SkipContentTypes,
          exclusions \in SeqsUpTo(ExclusionEntries, MaxExcl) \cup {EXCLUSIONS} :
         skip_call = [called |-> FALSE, content_type |-> content_type,
                      exclusions |-> exclusions, result |-> FALSE]

\* one evaluation of CompressionUtils::skip_encoding
SkipEncoding ==
    /\ ~skip_call.called
    /\ skip_call' = [skip_call EXCEPT
                       !.called = TRUE,
                       !.result = skip_encoding(skip_call.content_type, skip_call.exclusions)]
    /\ UNCHANGED <<response, config_exclude, call, phase, consumed, eof, enc_call>>

NextSkip == SkipEncoding

SpecSkip == InitSkip /\ [][NextSkip]_vars

---------------------------------------------------------------------------
(* Encoding parse/format on its own *)

\* tokens given to from_str: the fixed ones, other spellings, short strings
Tokens ==
    { s_chunked, s_br, s_gzip, s_deflate, s_compress, s_identity, s_trailers,
      s_GZIP, s_Gzip, Text(<<" ","g","z","i","p">>), Text(<<"g","z","i","p"," ">>),
      s_x_custom }
      \cup SeqsUpTo({CodeOf("b"), CodeOf("r"), CodeOf("B"), CodeOf("R")}, MaxTokLen)

Encodings == { Variant(tag) : tag \in FixedTags } \cup { EncodingExt(s) : s \in Tokens }

\* the argument is drawn here: a token to parse or a value to format
InitEnc ==
    /\ PipelineIdle
    /\ skip_call = NoSkipCall
    /\ \/ \E s \in Tokens : enc_call = [NoEncCall EXCEPT !.op = "token", !.s = s]
       \/ \E e \in Encodings : enc_call = [NoEncCall EXCEPT !.op = "encoding", !.e = e]

\* s.parse::<Encoding>()
ParseToken ==
    /\ enc_call.op = "token"
    /\ enc_call' = [enc_call EXCEPT !.op = "from_str", !.e = from_str(enc_call.s)]
    /\ UNCHANGED <<response, config_exclude, call, phase, consumed, eof, skip_call>>

\* format!("{}", e) of the value just parsed
FormatParsed ==
    /\ enc_call.op = "from_str"
    /\ enc_call' = [enc_call EXCEPT !.op = "from_str_fmt", !.t = fmt(enc_call.e)]
    /\ UNCHANGED <<response, config_exclude, call, phase, consumed, eof, skip_call>>

\* format!("{}", e) of an Encoding value
FormatEncoding ==
    /\ enc_call.op = "encoding"
    /\ enc_call' = [enc_call EXCEPT !.op = "fmt", !.t = fmt(enc_call.e)]
    /\ UNCHANGED <<response, config_exclude, call, phase, consumed, eof, skip_call>>

\* parsing back the text just formatted
ParseFormatted ==
    /\ enc_call.op = "fmt"
    /\ enc_call' = [enc_call EXCEPT !.op = "fmt_from_str", !.e2 = from_str(enc_call.t)]
    /\ UNCHANGED <<response, config_exclude, call, phase, consumed, eof, skip_call>>

NextEnc == ParseToken \/ FormatParsed \/ FormatEncoding \/ ParseFormatted

SpecEnc == InitEnc /\ [][NextEnc]_vars

---------------------------------------------------------------------------
(* Reference predicates the properties are stated with *)

\* Unicode White_Space: TAB, LF, VT, FF, CR, SPACE, NEL, NBSP, OGHAM SPACE
\* MARK, EN QUAD .. HAIR SPACE, LINE and PARAGRAPH SEPARATOR, NARROW NBSP,
\* MEDIUM MATHEMATICAL SPACE, IDEOGRAPHIC SPACE
WhiteSpace ==
    {9, 10, 11, 12, 13, 32, 133, 160, 5760,
     8192, 8193, 8194, 8195, 8196, 8197, 8198, 8199, 8200, 8201, 8202,
     8232, 8233, 8239, 8287, 12288}

\* header value h holds, between commas (U+002C), a piece that is `token`
\* with only white space around it
ValueHasToken(h, token) ==
    \E i \in 1..(Len(h) + 1), j \in 0..Len(h) :
        /\ i <= j + 1
        /\ (i = 1 \/ h[i - 1] = 44)
        /\ (j = Len(h) \/ h[j + 1] = 44)
        /\ \A k \in i..j : h[k] # 44
        /\ \E a \in i..(j + 1) :
             LET b == a + Len(token) - 1
             IN /\ b <= j
                /\ SubSeq(h, a, b) = token
                /\ \A k \in i..(a - 1) : h[k] \in WhiteSpace
                /\ \A k \in (b + 1)..j : h[k] \in WhiteSpace

\* some Accept-Encoding value of the request lists gzip
RequestsGzip(request) ==
    \E n \in 1..Len(request.accept_encoding) :
        ValueHasToken(request.accept_encoding[n], s_gzip)

\* the exclusion rule of the specification, over the set of exclusions
ExcludedRef(content_type, exclusions) ==
    /\ content_type # <<>>
    /\ \E e \in { exclusions[i] : i \in 1..Len(exclusions) } :
         \/ /\ e.sub = s_star
            /\ AsciiLower(e.top) = AsciiLower(content_type[1].top)
         \/ /\ e.sub # s_star
            /\ AsciiLower(e.top) = AsciiLower(content_type[1].top)
            /\ AsciiLower(e.sub) = AsciiLower(content_type[1].sub)

\* the exponents of the CRC-32 generator polynomial below x^32
CrcTaps == {26, 23, 22, 16, 12, 11, 10, 8, 7, 5, 4, 2, 1, 0}

RECURSIVE CrcCheckFrom(_, _, _)
\* the decoder's CRC-32 check value, register kept as 32 bits, one message
\* bit at a time (bit k of byte n of b, least significant first)
CrcCheckFrom(reg, b, k) ==
    IF b = <<>> THEN [i \in 1..32 |-> 1 - reg[i]]
    ELSE LET bit == (Head(b) \div (2 ^ k)) % 2
             top == (reg[1] + bit) % 2
             shifted == Tail(reg) \o <<0>>
             next == IF top = 1
                     THEN [i \in 1..32 |->
                             IF (32 - i) \in CrcTaps THEN 1 - shifted[i] ELSE shifted[i]]
                     ELSE shifted
         IN IF k = 7 THEN CrcCheckFrom(next, Tail(b), 0) ELSE CrcCheckFrom(next, b, k + 1)

CrcCheck(b) == CrcCheckFrom([i \in 1..32 |-> 1], b, 0)

RECURSIVE BytesToBits(_)
\* bytes as a bit stream, least significant bit of each byte first
BytesToBits(z) ==
    IF z = <<>> THEN <<>>
    ELSE [i \in 1..8 |-> (Head(z) \div (2 ^ (i - 1))) % 2] \o BytesToBits(Tail(z))

\* the number whose binary digits, most significant first, are bits[from..to]
CodeValue(bits, from, to) ==
    LET n == to - from + 1
        Weigh[i \in 0..n] ==
            IF i = 0 THEN 0 ELSE 2 * Weigh[i - 1] + bits[from + i - 1]
    IN Weigh[n]

RECURSIVE InflateFixed(_, _, _)
\* reads fixed-Huffman literal codes from position pos up to end-of-block:
\* the literals and the position after end-of-block, or a failure
InflateFixed(bits, pos, out) ==
    IF pos + 6 > Len(bits) THEN [ok |-> FALSE, out |-> out, pos |-> pos]
    ELSE IF CodeValue(bits, pos, pos + 6) = 0
         THEN [ok |-> TRUE, out |-> out, pos |-> pos + 7]
    ELSE IF pos + 7 > Len(bits) THEN [ok |-> FALSE, out |-> out, pos |-> pos]
    ELSE IF CodeValue(bits, pos, pos + 7) \in 48..191
         THEN InflateFixed(bits, pos + 8, Append(out, CodeValue(bits, pos, pos + 7) - 48))
    ELSE IF pos + 8 > Len(bits) THEN [ok |-> FALSE, out |-> out, pos |-> pos]
    ELSE IF CodeValue(bits, pos, pos + 8) \in 400..511
         THEN InflateFixed(bits, pos + 9, Append(out, CodeValue(bits, pos, pos + 8) - 256))
    ELSE [ok |-> FALSE, out |-> out, pos |-> pos]

\* what a client's gzip decoder returns for a member holding one final
\* fixed-Huffman block of literals: Some(payload) when header, block, CRC-32
\* and ISIZE are all in order, None otherwise
GzDecode(z) ==
    IF Len(z) < 20 \/ SubSeq(z, 1, 3) # <<31, 139, 8>> \/ z[4] # 0
    THEN <<>>
    ELSE LET bits == BytesToBits(SubSeq(z, 11, Len(z) - 8))
         IN IF SubSeq(bits, 1, 3) # <<1, 1, 0>>
            THEN <<>>
            ELSE LET r == InflateFixed(bits, 4, <<>>)
                 IN IF /\ r.ok
                       /\ (r.pos - 1 + 7) \div 8 = Len(z) - 18
                       /\ SubSeq(z, Len(z) - 7, Len(z) - 4) = PackBits(CrcCheck(r.out))
                       /\ z[Len(z) - 3] + 256 * z[Len(z) - 2] + 65536 * z[Len(z) - 1]
                            = Len(r.out) % 16777216
                       /\ z[Len(z)] = 0
                    THEN <<r.out>>
                    ELSE <<>>

IsGzipStream(resp) == resp.body # <<>> /\ resp.body[1].kind = "gzip_stream"

\* a hook has just returned and the response has not been sent yet
JustCalled == call.op # "none" /\ phase = "building"

\* the last hook call found a body, no Content-Encoding and no excluded type
Eligible ==
    /\ call.op # "none"
    /\ call.pre.body # <<>>
    /\ call.pre.content_encoding = <<>>
    /\ ~ExcludedRef(call.pre.content_type, call.exclusions)

RECURSIVE Depth(_)
\* how many compression wrappers lie around the original body
Depth(b) == IF b.kind = "gzip_stream" THEN 1 + Depth(b.plain) ELSE 0

---------------------------------------------------------------------------
(* Properties *)

\* C1: an eligible response (body, no Content-Encoding, content type absent
\* or not excluded) gets the gzip body over its original body and
\* Content-Encoding: gzip exactly when a comma-split, trimmed token of an
\* Accept-Encoding value is "gzip"; otherwise it is left as it was.  Once the
\* new body has been read successfully from a readable original, its bytes
\* decompress to the original bytes.
C1_GzipIffTokenAccepted ==
    /\ (JustCalled /\ Eligible) =>
         IF RequestsGzip(call.request)
         THEN response =
                [content_type |-> call.pre.content_type,
                 content_encoding |-> <<s_gzip>>,
                 body |-> <<[kind |-> "gzip_stream", plain |-> call.pre.body[1],
                             outcome |-> "pending"]>>]
         ELSE response = call.pre
    /\ (Eligible /\ RequestsGzip(call.request) /\ call.pre.body[1].io_ok
          /\ IsGzipStream(response) /\ response.body[1].outcome = "ok") =>
         /\ Len(consumed) = 1
         /\ consumed[1].ok
         /\ GzDecode(consumed[1].bytes) = <<call.pre.body[1].bytes>>

C1_Witness ==
    /\ Eligible
    /\ call.request.accept_encoding = <<s_gzip_br>>
    /\ call.pre.body[1].bytes # <<>>
    /\ response.content_encoding = <<s_gzip>>
    /\ consumed # <<>>
    /\ consumed[1].ok
    /\ GzDecode(consumed[1].bytes) = <<call.pre.body[1].bytes>>

\* C2: after a call on a response without Content-Encoding, the header is
\* present exactly when the body was replaced by the compressed wrapper; a
\* response without a body keeps no body and no header; and a compressed
\* body never goes without the header.
C2_HeaderIffBodyReplaced ==
    /\ (JustCalled /\ call.pre.content_encoding = <<>>) =>
         /\ (response.content_encoding # <<>>)
              <=> (IsGzipStream(response) /\ response.body # call.pre.body)
         /\ (response.content_encoding = <<>>) => response.body = call.pre.body
         /\ (call.pre.body = <<>>) => response = call.pre
    /\ IsGzipStream(response) => response.content_encoding = <<s_gzip>>

C2_Witness ==
    /\ JustCalled
    /\ call.pre.content_encoding = <<>>
    /\ call.pre.body = <<>>
    /\ call.pre.content_type = <<MediaType(s_text, s_html)>>
    /\ RequestsGzip(call.request)
    /\ response.content_encoding = <<>>
    /\ response.body = <<>>

\* C3: a response that already carries Content-Encoding (any value) comes
\* back from the call with the same body and the same headers, whatever the
\* content type, the exclusion list and the request.
C3_AlreadyEncodedUntouched ==
    (JustCalled /\ call.pre.content_encoding # <<>>) => response = call.pre

C3_Witness ==
    /\ JustCalled
    /\ call.pre.content_encoding = <<s_identity>>
    /\ call.pre.content_type = <<MediaType(s_text, s_html)>>
    /\ call.pre.body # <<>>
    /\ call.exclusions = <<>>
    /\ RequestsGzip(call.request)
    /\ response = call.pre

\* C4: a response whose content type matches an entry of the exclusion list
\* passed to the call is never compressed: body and headers stay as they
\* were, so no Content-Encoding is set, even when the request accepts gzip.
C4_ExcludedNeverCompressed ==
    (JustCalled /\ ExcludedRef(call.pre.content_type, call.exclusions)) =>
        /\ response = call.pre
        /\ ~IsGzipStream(call.pre) => ~IsGzipStream(response)

C4_Witness ==
    /\ JustCalled
    /\ call.op = "on_response"
    /\ call.pre.content_type = <<MediaType(s_image, s_png)>>
    /\ call.pre.content_encoding = <<>>
    /\ call.pre.body # <<>>
    /\ RequestsGzip(call.request)
    /\ response = call.pre
    /\ response.content_encoding = <<>>

\* C5: once the compressed body has yielded its item, a failed read of the
\* original body or a failed encoder shows as exactly one error item at the
\* consumer, never as a successful payload.
C5_FailureSurfacedAsErrorItem ==
    (/\ IsGzipStream(response)
     /\ response.body[1].outcome \in {"ok", "encoder_error"}
     /\ \/ response.body[1].outcome = "encoder_error"
        \/ ~response.body[1].plain.io_ok)
    => consumed = <<ErrItem>>

\* C6: with a custom compress.exclude list configured, on_response excludes
\* by that list and not by the defaults: an eligible response whose type the
\* custom list does not match is compressed when the request accepts gzip.
C6_CustomExclusionsReplaceDefaults ==
    (/\ JustCalled
     /\ call.op = "on_response"
     /\ config_exclude # <<>>
     /\ call.pre.body # <<>>
     /\ call.pre.content_encoding = <<>>
     /\ ~ExcludedRef(call.pre.content_type, config_exclude[1])
     /\ RequestsGzip(call.request))
    => (IsGzipStream(response) /\ response.content_encoding = <<s_gzip>>)

\* C7: skip_encoding is false without a content type; otherwise it is true
\* exactly when some exclusion is a "*" entry with the content type's top, or
\* a concrete entry equal to the content type in top and subtype; and the
\* result is the same for every reordering of the exclusion list.
C7_SkipEncodingReference ==
    skip_call.called =>
        /\ skip_call.result = ExcludedRef(skip_call.content_type, skip_call.exclusions)
        /\ (skip_call.content_type = <<>>) => ~skip_call.result
        /\ \A p \in Permutations(1..Len(skip_call.exclusions)) :
             skip_encoding(skip_call.content_type,
                           [i \in 1..Len(skip_call.exclusions) |-> skip_call.exclusions[p[i]]])
               = skip_call.result

C7_Witness ==
    /\ skip_call.called
    /\ skip_call.result
    /\ skip_call.content_type = <<MediaType(s_image, s_png)>>
    /\ skip_call.exclusions = << MediaType(s_application, s_zip), MediaType(s_image, s_star) >>

\* C8: formatting what was parsed gives back the string, for the seven fixed
\* tokens and for every other string (other spellings included); parsing
\* always yields an Encoding; and parsing the text of a non-extension
\* variant gives back that variant.
C8_EncodingRoundTrip ==
    /\ (enc_call.op \in {"from_str", "from_str_fmt"}) =>
         /\ enc_call.e.tag \in FixedTags \cup {"EncodingExt"}
         /\ (enc_call.e.tag = "EncodingExt") => enc_call.e.s = enc_call.s
    /\ (enc_call.op = "from_str_fmt") => enc_call.t = enc_call.s
    /\ (enc_call.op = "fmt_from_str" /\ enc_call.e.tag \in FixedTags) =>
         enc_call.e2 = enc_call.e

C8_Witness ==
    /\ enc_call.op = "from_str_fmt"
    /\ enc_call.s = s_GZIP
    /\ enc_call.e = EncodingExt(s_GZIP)
    /\ enc_call.t = s_GZIP

\* C9: whatever calls are made on one response, its body is never wrapped
\* more than once, and a call on an already compressed response leaves body
\* and headers as they were.
C9_AtMostOnePass ==
    /\ response.body # <<>> => Depth(response.body[1]) <= 1
    /\ (JustCalled /\ IsGzipStream(call.pre)) => response = call.pre

C9_Witness ==
    /\ JustCalled
    /\ IsGzipStream(call.pre)
    /\ call.pre.content_type = <<MediaType(s_text, s_html)>>
    /\ call.exclusions = <<>>
    /\ RequestsGzip(call.request)
    /\ response = call.pre
    /\ Depth(response.body[1]) = 1

\* C10: the original body is untouched when the compressed body is
\* installed and for as long as the consumer has not polled it (so also when
\* the consumer goes away without polling: nothing read, nothing reported);
\* one read of it is started by the consumer's first poll and no other; the
\* item is delivered only once that read has got to the end.
C10_LazyBody ==
    IsGzipStream(response) =>
        LET w == response.body[1]
        IN /\ w.plain.kind = "plain"
           /\ (w.outcome = "pending") =>
                /\ w.plain.reads = 0
                /\ w.plain.state = "unread"
                /\ consumed = <<>>
                /\ ~eof
           /\ (w.outcome = "reading") =>
                /\ w.plain.reads = 1
                /\ w.plain.state = "reading"
                /\ consumed = <<>>
                /\ phase # "building"
           /\ (w.outcome \in {"ok", "encoder_error"}) =>
                /\ w.plain.reads = 1
                /\ w.plain.state = "drained"
                /\ Len(consumed) = 1
                /\ phase # "building"

C10_Witness ==
    /\ IsGzipStream(response)
    /\ phase = "dropped"
    /\ response.body[1].outcome = "pending"
    /\ response.body[1].plain.reads = 0
    /\ consumed = <<>>

====
